---- MODULE Spec2Model ----
(***************************************************************************)
(* The rimor path planner: reward grid, adjacency, greedy walker, the two   *)
(* integer-program planners, the grid loader and the command-line front    *)
(* end.  Each part has its own specification over the same variables; the  *)
(* parts a specification does not run stay idle.                           *)
(*                                                                         *)
(* Two copies of the grid/walker code exist in the repository:             *)
(*   "crate" : pathfinding/src/lib.rs + pathfinding/src/bfs.rs             *)
(*             (Graph is immutable; the walker works on a clone)           *)
(*   "app"   : src/pathfinding.rs                                          *)
(*             (Graph stores its edges; the walker takes &mut self)        *)
(* Both are modelled; the variable `variant` says which one runs.          *)
(*                                                                         *)
(* A `+=` that overflows panics in a build with overflow checks (debug)    *)
(* and wraps in one without (release): where it can happen, the action     *)
(* takes either outcome (\E overflow_checks \in BOOLEAN).                  *)
(*                                                                         *)
(* A u32 is modelled as two 16-bit limbs <<hi, lo>> (value hi*2^16 + lo),  *)
(* so that the full 32-bit width, including overflow of `+=`, is kept      *)
(* although TLC's own integers stop at 2^31 - 1.                           *)
(***************************************************************************)
EXTENDS Integers, Sequences, FiniteSets, TLC

VARIABLES
    variant,          \* "crate" | "app": which copy of the code runs
    \* ---- greedy walker (path_planning_bfs) ----
    input,            \* ghost: the arguments of the call [graph, start, max_timesteps, recovery_rate]
    self,             \* the Graph object the caller passed (the receiver)
    graph,            \* crate: the walker's local `graph` (clone of self); app: unused
    pq,               \* the BinaryHeap's backing vector
    path,             \* Vec<PathfindingStep>
    score,            \* local accumulator `score`
    step,             \* local counter `step` (crate only)
    pc,               \* "call" | "loop" | "returned" | "panicked"
    trace,            \* ghost: the working grid's nodes after each step
    \* ---- grid operations applied one at a time ----
    cur,              \* the grid the next operation is called on
    last,             \* the last call: [op, before, self_after, ret, u, rate, panicked]
    nops,             \* number of operations applied so far
    \* ---- adjacency ----
    adj_size,         \* the size Graph::new was called with
    adj_edges,        \* app: the `edges` map built so far
    adj_k,            \* app: number of cells of the (i, j) loops already handled
    adj_query,        \* the last get_neighbors call: [asked, u, out]
    \* ---- the planners, the loader and the command-line front end ----
    lp,               \* Graph::lp (lp.rs): the locals of one call, as a record
    tlp,              \* Graph::path_planning_lp (pathfinding.rs): one call, as a record
    ld,               \* Graph::from_file: the text read and what loading it gave
    cli               \* cli main: main thread, worker thread and channel

walkerVars == <<input, self, graph, pq, path, score, step, pc, trace>>
gridVars == <<cur, last, nops>>
adjVars == <<adj_size, adj_edges, adj_k, adj_query>>
extVars == <<lp, tlp, ld, cli>>
vars == <<variant, walkerVars, gridVars, adjVars, extVars>>

-----------------------------------------------------------------------------
(* Bounds of the model *)

MaxSize == 3        \* walker grids have size 1..MaxSize
MaxSteps == 5       \* step budgets 0..MaxSteps
MaxRate == 2        \* recovery rates 0..MaxRate
MaxGridSize == 2    \* grid-operation grids have size 1..MaxGridSize
MaxOps == 2         \* length of a visit/recover sequence
MaxAdjSize == 5     \* adjacency is checked on sizes 1..MaxAdjSize

-----------------------------------------------------------------------------
(* u32 arithmetic on limbs *)

LimbBase == 65536

U32(n) == <<n \div LimbBase, n % LimbBase>>

U32_MAX == <<LimbBase - 1, LimbBase - 1>>

\* a <= b on u32 (lexicographic on the limbs)
leq_u32(a, b) == a[1] < b[1] \/ (a[1] = b[1] /\ a[2] <= b[2])

\* mutant of add_u32: a signed score that decays (`-=`) instead of recovering
add_u32_signed_sub(a, b) ==
    LET lo == a[2] - b[2]
    IN  [value |-> <<a[1] - b[1] + (lo \div LimbBase), lo % LimbBase>>,
         overflow |-> FALSE]

\* `a += b` on u32: the 32 low bits of the sum, and whether the sum left the type
add_u32(a, b) ==
    LET lo == a[2] + b[2]
        hi == a[1] + b[1] + (lo \div LimbBase)
    IN  [value |-> <<hi % LimbBase, lo % LimbBase>>, overflow |-> hi >= LimbBase]

\* the mathematical sum a + b, top limb unbounded (used to state claims)
ExactAdd(a, b) ==
    LET lo == a[2] + b[2]
    IN  <<a[1] + b[1] + (lo \div LimbBase), lo % LimbBase>>

\* the number a u32 stands for; only for values below 2^31
Val(x) == x[1] * LimbBase + x[2]

-----------------------------------------------------------------------------
(* Graph: nodes is Vec<Vec<Node>>, indexed nodes[i+1][j+1] for Position <<i, j>>; *)
(* a Node is modelled by its score (decay_rate and recovery_rate are never read). *)

Cells(n) == {<<i, j>> : i \in 0..(n - 1), j \in 0..(n - 1)}

Graph_new(n) ==
    [nodes |-> [i \in 1..n |-> [j \in 1..n |-> U32(0)]], size |-> n]

add_node(g, u, node) == [g EXCEPT !.nodes[u[1] + 1][u[2] + 1] = node]

get_node_at(g, u) == g.nodes[u[1] + 1][u[2] + 1]

size(g) == Len(g.nodes)

\* mutant of Offsets: the cell itself is not skipped
Offsets_with_self ==
    << <<-1, -1>>, <<-1, 0>>, <<-1, 1>>, <<0, -1>>, <<0, 0>>,
       <<0, 1>>, <<1, -1>>, <<1, 0>>, <<1, 1>> >>

\* the eight offsets in the order get_neighbors lists them
Offsets ==
    << <<-1, -1>>, <<-1, 0>>, <<-1, 1>>, <<0, -1>>,
       <<0, 1>>, <<1, -1>>, <<1, 0>>, <<1, 1>> >>

\* mutant of InBounds: `<=` for `<` in the upper bounds
InBounds_inclusive(n, p) == p[1] >= 0 /\ p[1] <= n /\ p[2] >= 0 /\ p[2] <= n

InBounds(n, p) == p[1] >= 0 /\ p[1] < n /\ p[2] >= 0 /\ p[2] < n

RECURSIVE neighbors_from(_, _, _)
neighbors_from(n, u, k) ==
    IF k > Len(Offsets) THEN <<>>
    ELSE LET p == <<u[1] + Offsets[k][1], u[2] + Offsets[k][2]>>
         IN  IF InBounds(n, p) THEN <<p>> \o neighbors_from(n, u, k + 1)
             ELSE neighbors_from(n, u, k + 1)

\* mutant of get_neighbors: the last row and column are left out
get_neighbors_short(g, u) == neighbors_from(g.size - 1, u, 1)

get_neighbors(g, u) == neighbors_from(g.size, u, 1)

\* mutant of reset_score: no clone, the receiver itself is zeroed
reset_score_in_place(g, u) ==
    LET zeroed == [g EXCEPT !.nodes[u[1] + 1][u[2] + 1] = U32(0)]
    IN  [self |-> zeroed, ret |-> zeroed]

reset_score(g, u) ==
    LET graph_ == g
    IN  [self |-> g, ret |-> [graph_ EXCEPT !.nodes[u[1] + 1][u[2] + 1] = U32(0)]]

\* the cells whose `score += recovery_rate` leaves the u32 range
overflow_cells(g, recovery_rate, except) ==
    {c \in Cells(size(g)) :
        c # except /\ add_u32(get_node_at(g, c), recovery_rate).overflow}

\* row-major position of a cell in the (i, j) loops
loop_index(g, c) == c[1] * size(g) + c[2]

\* the nodes after the (i, j) loops have handled the first `upto` cells
recovered_nodes(g, recovery_rate, except, upto) ==
    [i \in 1..size(g) |-> [j \in 1..size(g) |->
        IF <<i - 1, j - 1>> # except /\ loop_index(g, <<i - 1, j - 1>>) < upto
        THEN add_u32(g.nodes[i][j], recovery_rate).value
        ELSE g.nodes[i][j]]]

\* mutant of recover_for: the `!= except` test is missing
recover_for_all(g, recovery_rate, except) ==
    [self |-> g,
     ret |-> [g EXCEPT !.nodes =
                 recovered_nodes(g, recovery_rate, <<-1, -1>>, size(g) * size(g))],
     overflow |-> overflow_cells(g, recovery_rate, <<-1, -1>>) # {}]

\* crate: recover_for(&self) works on a clone and returns it
recover_for(g, recovery_rate, except) ==
    [self |-> g,
     ret |-> [g EXCEPT !.nodes =
                 recovered_nodes(g, recovery_rate, except, size(g) * size(g))],
     overflow |-> overflow_cells(g, recovery_rate, except) # {}]

\* app: `node.score *= 0` through get_node_at_mut, on the receiver itself
app_zero_score(g, u) ==
    [g EXCEPT !.nodes[u[1] + 1][u[2] + 1] = U32(0)]

\* app: recover_for(&mut self) updates the receiver in place; `partial` is the
\* receiver as a panicking `+=` leaves it (the cells before the first overflow)
app_recover_for(g, recovery_rate, except) ==
    LET bad == overflow_cells(g, recovery_rate, except)
        first == IF bad = {} THEN size(g) * size(g)
                 ELSE CHOOSE k \in {loop_index(g, c) : c \in bad} :
                        \A c \in bad : k <= loop_index(g, c)
    IN  [self |-> [g EXCEPT !.nodes =
                      recovered_nodes(g, recovery_rate, except, size(g) * size(g))],
         partial |-> [g EXCEPT !.nodes =
                      recovered_nodes(g, recovery_rate, except, first)],
         overflow |-> bad # {}]

-----------------------------------------------------------------------------
(* app: Graph::new materialises the adjacency in `edges` *)

add_edge(edges, u, v) ==
    IF u \in DOMAIN edges THEN [edges EXCEPT ![u] = Append(@, v)]
    ELSE edges @@ (u :> <<v>>)

\* the di, dj loops of one (i, j) iteration, from loop position k = 3*(di+1) + (dj+1)
RECURSIVE add_edges_of_cell(_, _, _, _)
add_edges_of_cell(edges, n, u, k) ==
    IF k > 8 THEN edges
    ELSE LET di == (k \div 3) - 1
             dj == (k % 3) - 1
             ni == u[1] + di
             nj == u[2] + dj
         IN  IF di = 0 /\ dj = 0 THEN add_edges_of_cell(edges, n, u, k + 1)
             ELSE IF ni >= 0 /\ ni < n /\ nj >= 0 /\ nj < n
                  THEN add_edges_of_cell(add_edge(edges, u, <<ni, nj>>), n, u, k + 1)
                  ELSE add_edges_of_cell(edges, n, u, k + 1)

EmptyMap == [x \in {} |-> <<>>]

\* the entries one (i, j) iteration adds: all of them under the key <<i, j>>
edges_of_cell(n, u) == add_edges_of_cell(EmptyMap, n, u, 0)

\* the k-th cell of the (i, j) loops, k = 0, 1, ...
loop_cell(n, k) == <<k \div n, k % n>>

\* the edges after the first k cells of the (i, j) loops (each iteration
\* writes only the key of its own cell, so the iterations do not interact)
edges_upto(n, k) ==
    LET keys == {u \in {loop_cell(n, m) : m \in 0..(k - 1)} :
                    u \in DOMAIN edges_of_cell(n, u)}
    IN  [u \in keys |-> edges_of_cell(n, u)[u]]

app_Graph_new(n) ==
    [nodes |-> [i \in 1..n |-> [j \in 1..n |-> U32(0)]], edges |-> edges_upto(n, n * n)]

\* Option<&Vec<Position>>
app_get_neighbors(g, u) ==
    IF u \in DOMAIN g.edges THEN [some |-> TRUE, vec |-> g.edges[u]]
    ELSE [some |-> FALSE, vec |-> <<>>]

-----------------------------------------------------------------------------
(* std BinaryHeap over PathfindingBestFirstSearchState, ordered by cmp *)

\* mutant of state_le: the comparison the other way round (a min-heap)
state_ge(a, b) == leq_u32(b.score, a.score)

\* mutant of state_le: `<` for `<=`, so that equal scores count as greater
state_lt(a, b) == a.score # b.score /\ leq_u32(a.score, b.score)

\* a <= b under Ord::cmp, which compares the scores only
state_le(a, b) == leq_u32(a.score, b.score)

swap(data, p, q) == [data EXCEPT ![p + 1] = data[q + 1], ![q + 1] = data[p + 1]]

RECURSIVE sift_up(_, _, _)
sift_up(data, start, pos) ==
    IF pos > start
    THEN LET parent == (pos - 1) \div 2
         IN  IF state_le(data[pos + 1], data[parent + 1]) THEN data
             ELSE sift_up(swap(data, pos, parent), start, parent)
    ELSE data

heap_push(data, item) == sift_up(Append(data, item), 0, Len(data))

RECURSIVE sift_down_to_bottom(_, _)
sift_down_to_bottom(data, pos) ==
    LET end == Len(data)
        child == 2 * pos + 1
    IN  IF child + 1 < end
        THEN LET c == IF state_le(data[child + 1], data[child + 2])
                      THEN child + 1 ELSE child
             IN  sift_down_to_bottom(swap(data, pos, c), c)
        ELSE IF child = end - 1
             THEN sift_up(swap(data, pos, child), 0, child)
             ELSE sift_up(data, 0, pos)

heap_pop(data) ==
    LET n == Len(data)
    IN  IF n = 1 THEN [item |-> data[1], rest |-> <<>>]
        ELSE [item |-> data[1],
              rest |-> sift_down_to_bottom(
                          [SubSeq(data, 1, n - 1) EXCEPT ![1] = data[n]], 0)]

\* mutant of clear: the queue keeps what it held
clear_keeps(data) == data

\* BinaryHeap::clear (`pq.clear()`): every element is dropped
clear(data) == <<>>

RECURSIVE push_all(_, _, _, _, _)
\* the `for neighbor in ...` loop: one push per neighbour, in order
push_all(data, g_nodes, nbrs, remaining, k) ==
    IF k > Len(nbrs) THEN data
    ELSE push_all(
            heap_push(data, [score |-> g_nodes[nbrs[k][1] + 1][nbrs[k][2] + 1],
                             timesteps_remaining |-> remaining,
                             node |-> nbrs[k]]),
            g_nodes, nbrs, remaining, k + 1)

-----------------------------------------------------------------------------
(* The grids the walker is run on *)

\* a grid of size n holding the scores f[<<i, j>>] (Graph::new, then add_node per cell)
GridOf(n, f) ==
    [nodes |-> [i \in 1..n |-> [j \in 1..n |-> U32(f[<<i - 1, j - 1>>])]], size |-> n]

\* the fixture of test_path_planning_bfs_output
TestScores == << <<0, 5, 5>>, <<5, 7, 5>>, <<5, 10, 5>> >>

TestGrid == GridOf(3, [c \in Cells(3) |-> TestScores[c[1] + 1][c[2] + 1]])

\* 5 everywhere but 10 at one cell
PeakGrid(n, p) == GridOf(n, [c \in Cells(n) |-> IF c = p THEN 10 ELSE 5])

InputGrids ==
    UNION {
        {Graph_new(n)}
        \cup {PeakGrid(n, <<i, i>>) : i \in 0..(n - 1)}
        \cup (IF n <= 2 THEN {GridOf(n, f) : f \in [Cells(n) -> {0, 5}]} ELSE {})
        \cup (IF n = 3 THEN {TestGrid} ELSE {})
        : n \in 1..MaxSize }

WalkerInputs ==
    UNION { [graph : {g}, start : Cells(g.size),
             max_timesteps : 0..MaxSteps, recovery_rate : 0..MaxRate]
            : g \in InputGrids }

\* the app's Graph of the same size and scores
AppGraph(g) == [app_Graph_new(g.size) EXCEPT !.nodes = g.nodes]

NoGraph == [nodes |-> <<>>, size |-> 0]

NoCall == [op |-> "none", panicked |-> FALSE]

NoQuery == [asked |-> FALSE, u |-> <<0, 0>>, out |-> <<>>]

gridIdle == cur = NoGraph /\ last = NoCall /\ nops = 0

adjIdle == adj_size = 0 /\ adj_edges = EmptyMap /\ adj_k = 0 /\ adj_query = NoQuery

Idle == [pc |-> "idle"]

extIdle == lp = Idle /\ tlp = Idle /\ ld = Idle /\ cli = Idle

walkerIdle ==
    /\ input = [graph |-> NoGraph, start |-> <<0, 0>>,
                max_timesteps |-> 0, recovery_rate |-> 0]
    /\ self = NoGraph /\ graph = NoGraph /\ pq = <<>> /\ path = <<>>
    /\ score = U32(0) /\ step = 0 /\ pc = "idle" /\ trace = <<>>

-----------------------------------------------------------------------------
(* The greedy walker *)

Init ==
    /\ variant \in {"crate", "app"}
    /\ input \in WalkerInputs
    /\ self = (IF variant = "crate" THEN input.graph ELSE AppGraph(input.graph))
    /\ graph = NoGraph
    /\ pq = <<>> /\ path = <<>> /\ score = U32(0) /\ step = 0
    /\ pc = "call"
    /\ trace = <<>>
    /\ gridIdle /\ adjIdle /\ extIdle

\* bfs.rs 35-45: the locals, and the start state pushed on the queue
bfs_call ==
    /\ variant = "crate" /\ pc = "call"
    /\ graph' = self
    /\ pq' = heap_push(<<>>, [score |-> get_node_at(self, input.start),
                              timesteps_remaining |-> input.max_timesteps,
                              node |-> input.start])
    /\ path' = <<>> /\ score' = U32(0) /\ step' = 0
    /\ pc' = "loop"
    /\ UNCHANGED <<variant, input, self, trace, gridVars, adjVars, extVars>>

\* bfs.rs 47-76: one pass of `while let Some(state) = pq.pop()`
bfs_iterate ==
    /\ variant = "crate" /\ pc = "loop" /\ pq # <<>>
    /\ LET popped == heap_pop(pq)
           state == popped.item
           score_ == get_node_at(graph, state.node)
           sum == add_u32(score, score_)
           rec == recover_for(reset_score(graph, state.node).ret,
                              U32(input.recovery_rate), state.node)
       IN  \E overflow_checks \in BOOLEAN :
           IF state.timesteps_remaining = 0
           THEN /\ pc' = "returned"
                /\ pq' = popped.rest
                /\ UNCHANGED <<graph, path, score, step, trace>>
           ELSE IF overflow_checks /\ (sum.overflow \/ rec.overflow)
           THEN /\ pc' = "panicked"
                /\ pq' = popped.rest
                /\ UNCHANGED <<graph, path, score, step, trace>>
           ELSE /\ score' = sum.value
                /\ step' = step + 1
                /\ path' = Append(path, [node |-> state.node, score |-> score_,
                                         step |-> step + 1])
                /\ graph' = rec.ret
                /\ pq' = push_all(clear(popped.rest), rec.ret.nodes,
                                  get_neighbors(rec.ret, state.node),
                                  state.timesteps_remaining - 1, 1)
                /\ trace' = Append(trace, rec.ret.nodes)
                /\ pc' = "loop"
    /\ UNCHANGED <<variant, input, self, gridVars, adjVars, extVars>>

\* pathfinding.rs 161-169
app_bfs_call ==
    /\ variant = "app" /\ pc = "call"
    /\ pq' = heap_push(<<>>, [score |-> get_node_at(self, input.start),
                              timesteps_remaining |-> input.max_timesteps,
                              node |-> input.start])
    /\ path' = <<>> /\ score' = U32(0)
    /\ pc' = "loop"
    /\ UNCHANGED <<variant, input, self, graph, step, trace,
                   gridVars, adjVars, extVars>>

\* pathfinding.rs 171-203: one pass of the loop, on the receiver itself
app_bfs_iterate ==
    /\ variant = "app" /\ pc = "loop" /\ pq # <<>>
    /\ LET popped == heap_pop(pq)
           state == popped.item
           node == get_node_at(self, state.node)
           sum == add_u32(score, node)
           zeroed == app_zero_score(self, state.node)
           rec == app_recover_for(zeroed, U32(input.recovery_rate), state.node)
           neighbors == app_get_neighbors(rec.self, state.node)
       IN  \E overflow_checks \in BOOLEAN :
           IF state.timesteps_remaining = 0
           THEN /\ pc' = "returned"
                /\ pq' = popped.rest
                /\ UNCHANGED <<self, path, score, trace>>
           ELSE IF overflow_checks /\ sum.overflow
           THEN /\ pc' = "panicked"
                /\ pq' = popped.rest
                /\ UNCHANGED <<self, path, score, trace>>
           ELSE IF overflow_checks /\ rec.overflow
           THEN /\ pc' = "panicked"
                /\ pq' = popped.rest
                /\ score' = sum.value
                /\ path' = Append(path, [node |-> state.node, score |-> node])
                /\ self' = rec.partial
                /\ UNCHANGED trace
           ELSE /\ score' = sum.value
                /\ path' = Append(path, [node |-> state.node, score |-> node])
                /\ self' = rec.self
                /\ pq' = IF neighbors.some
                         THEN push_all(clear(popped.rest), rec.self.nodes, neighbors.vec,
                                       state.timesteps_remaining - 1, 1)
                         ELSE popped.rest
                /\ trace' = Append(trace, rec.self.nodes)
                /\ pc' = "loop"
    /\ UNCHANGED <<variant, input, graph, step, gridVars, adjVars, extVars>>

\* bfs.rs 47, 78 / pathfinding.rs 171, 205: the queue is empty, the result is returned
bfs_return ==
    /\ pc = "loop" /\ pq = <<>>
    /\ pc' = "returned"
    /\ UNCHANGED <<variant, input, self, graph, pq, path, score,
                   step, trace, gridVars, adjVars, extVars>>

Next == bfs_call \/ bfs_iterate \/ app_bfs_call \/ app_bfs_iterate \/ bfs_return

Spec == Init /\ [][Next]_vars

\* PathfindingResult::score (lib.rs 49-51): the sum of the steps' scores
RECURSIVE sum_scores(_, _)
sum_scores(p, k) ==
    IF k = 0 THEN [value |-> U32(0), overflow |-> FALSE]
    ELSE LET before == sum_scores(p, k - 1)
             s == add_u32(before.value, p[k].score)
         IN  [value |-> s.value, overflow |-> before.overflow \/ s.overflow]

\* mutant of result_score: the last step is left out of the sum
result_score_but_last(p) == sum_scores(p, IF Len(p) = 0 THEN 0 ELSE Len(p) - 1)

result_score(p) == sum_scores(p, Len(p))

-----------------------------------------------------------------------------
(* Properties of the greedy walker *)

Abs(x) == IF x < 0 THEN -x ELSE x

\* b is one of the (up to) eight cells around a
Adjacent(a, b) == a # b /\ Abs(a[1] - b[1]) <= 1 /\ Abs(a[2] - b[2]) <= 1

\* the working grid's nodes the walker sees on arrival at step k
NodesBefore(k) == IF k = 1 THEN input.graph.nodes ELSE trace[k - 1]

\* the latest step before k that visited cell c, 0 if there is none
LastVisit(k, c) ==
    LET earlier == {m \in 1..(k - 1) : path[m].node = c}
    IN  IF earlier = {} THEN 0
        ELSE CHOOSE m \in earlier : \A x \in earlier : x <= m

\* C1: on a grid of size >= 2 with budget T >= 1 the returned trajectory has
\* exactly T steps, numbered 1, 2, ..., T in order (bfs.rs), and starts at the
\* start cell.
C1_ExactlyTSteps ==
    (pc = "returned" /\ input.graph.size >= 2 /\ input.max_timesteps >= 1) =>
        /\ Len(path) = input.max_timesteps
        /\ path[1].node = input.start
        /\ variant = "crate" => \A k \in 1..Len(path) : path[k].step = k

C1_Witness ==
    /\ pc = "returned" /\ variant = "crate"
    /\ input.graph.size >= 2 /\ input.max_timesteps = MaxSteps
    /\ Len(path) = MaxSteps /\ path[MaxSteps].step = MaxSteps
    /\ path[1].node = input.start

\* C2: the reward recorded at step k for cell c is initial(c) + r*(k-1) when c
\* was not visited before, and r*(k-k'-1) when its latest earlier visit was
\* step k'; on the 3x3 test grid from (0,0) with budget 3 and r = 1 the steps
\* are (0,0)->0, (1,1)->8, (2,1)->12.
C2_RewardAtArrival ==
    /\ \A k \in 1..Len(path) :
          LET c == path[k].node
              lv == LastVisit(k, c)
              r == input.recovery_rate
          IN  Val(path[k].score) =
                 IF lv = 0 THEN Val(get_node_at(input.graph, c)) + r * (k - 1)
                 ELSE r * (k - lv - 1)
    /\ (pc = "returned" /\ input.graph = TestGrid /\ input.start = <<0, 0>>
          /\ input.max_timesteps = 3 /\ input.recovery_rate = 1) =>
          /\ Len(path) = 3
          /\ <<path[1].node, Val(path[1].score)>> = << <<0, 0>>, 0 >>
          /\ <<path[2].node, Val(path[2].score)>> = << <<1, 1>>, 8 >>
          /\ <<path[3].node, Val(path[3].score)>> = << <<2, 1>>, 12 >>

\* a cell is taken a second time after having recovered at a positive rate
C2_Witness ==
    /\ pc = "returned" /\ input.recovery_rate >= 1
    /\ \E k \in 1..Len(path) :
          /\ LastVisit(k, path[k].node) # 0
          /\ Val(path[k].score) > 0

\* C3: the cell of step k+1 is one of the eight neighbours of the cell of step
\* k, and in the grid as updated after step k (that cell zeroed, every other
\* cell recovered) no neighbour of the step-k cell holds more than it.
C3_GreedyChoice ==
    \A k \in 1..Len(trace) :
        LET c == path[k].node
            n == input.graph.size
            before == NodesBefore(k)
            after == trace[k]
        IN  /\ \A m \in Cells(n) :
                  after[m[1] + 1][m[2] + 1] =
                     IF m = c THEN U32(0)
                     ELSE ExactAdd(before[m[1] + 1][m[2] + 1], U32(input.recovery_rate))
            /\ k < Len(path) =>
                  LET d == path[k + 1].node
                  IN  /\ d \in Cells(n) /\ Adjacent(c, d)
                      /\ \A m \in Cells(n) :
                            Adjacent(c, m) =>
                               leq_u32(after[m[1] + 1][m[2] + 1], after[d[1] + 1][d[2] + 1])

\* a step whose choice was not forced: some neighbour held strictly less
C3_Witness ==
    /\ Len(path) >= 3
    /\ \E m \in Cells(input.graph.size) :
          /\ Adjacent(path[2].node, m)
          /\ ~ leq_u32(trace[2][path[3].node[1] + 1][path[3].node[2] + 1],
                       trace[2][m[1] + 1][m[2] + 1])

\* C4: after path_planning_bfs has returned, every cell of the grid object the
\* caller passed holds the reward it held before the call.
C4_CallerGridUnchanged ==
    pc = "returned" => self.nodes = input.graph.nodes

\* the mathematical sum of the per-step rewards of a trajectory
RECURSIVE ExactSum(_, _)
ExactSum(p, k) ==
    IF k = 0 THEN U32(0) ELSE ExactAdd(ExactSum(p, k - 1), p[k].score)

\* C5: the reported total score equals the sum of the per-step rewards (0 for
\* an empty trajectory): score() computed on demand for the crate's result,
\* the stored `score` field for the app's result.
C5_ScoreIsSum ==
    pc = "returned" =>
        /\ variant = "crate" => result_score(path).value = ExactSum(path, Len(path))
        /\ variant = "app" => score = ExactSum(path, Len(path))

C5_Witness ==
    /\ pc = "returned" /\ variant = "crate" /\ Len(path) = MaxSteps
    /\ Val(result_score(path).value) > Val(path[Len(path)].score)
    /\ Val(path[Len(path)].score) > 0

\* C10: on a grid of size 1 the walker with a budget T >= 1 returns, without
\* panicking, a trajectory of exactly one step: the start cell with its
\* initial reward; after that step the queue is empty, so the loop ends.
C10_SingleCell ==
    (input.graph.size = 1 /\ input.max_timesteps >= 1) =>
        /\ pc # "panicked"
        /\ pc = "loop" => (Len(path) = 0 \/ pq = <<>>)
        /\ pc = "returned" =>
              /\ Len(path) = 1
              /\ path[1].node = input.start
              /\ path[1].score = get_node_at(input.graph, input.start)

C10_Witness ==
    /\ pc = "returned" /\ input.graph.size = 1 /\ input.max_timesteps = MaxSteps
    /\ Len(path) = 1 /\ Val(path[1].score) = 10

-----------------------------------------------------------------------------
(* Grid operations: visit (reset_score) and recover (recover_for) applied *)
(* in any order to a grid, each on the grid the previous one produced.    *)

\* every cell at the top of the u32 range, but the last one a single step below it
SaturatedGrid(n) ==
    [nodes |-> [i \in 1..n |-> [j \in 1..n |->
                  IF i = n /\ j = n THEN <<LimbBase - 1, LimbBase - 2>> ELSE U32_MAX]],
     size |-> n]

GridOpInputs ==
    UNION { {Graph_new(n), SaturatedGrid(n)}
            : n \in 1..MaxGridSize }

InitGrid ==
    /\ variant \in {"crate", "app"}
    /\ \E g \in GridOpInputs :
          cur = (IF variant = "crate" THEN g ELSE AppGraph(g))
    /\ last = NoCall
    /\ nops = 0
    /\ walkerIdle /\ adjIdle /\ extIdle

CanCall == nops < MaxOps /\ ~ last.panicked

\* lib.rs 97-101
visit(u) ==
    /\ variant = "crate" /\ CanCall
    /\ LET r == reset_score(cur, u)
       IN  /\ last' = [op |-> "reset_score", before |-> cur, self_after |-> r.self,
                       ret |-> r.ret, u |-> u, rate |-> 0, panicked |-> FALSE]
           /\ cur' = r.ret
    /\ nops' = nops + 1
    /\ UNCHANGED <<variant, walkerVars, adjVars, extVars>>

\* lib.rs 162-173
recover(rate, except) ==
    /\ variant = "crate" /\ CanCall
    /\ LET r == recover_for(cur, U32(rate), except)
       IN  \E overflow_checks \in (IF r.overflow THEN BOOLEAN ELSE {FALSE}) :
           IF overflow_checks /\ r.overflow
           THEN /\ last' = [op |-> "recover_for", before |-> cur, self_after |-> r.self,
                            ret |-> NoGraph, u |-> except, rate |-> rate,
                            panicked |-> TRUE]
                /\ cur' = cur
           ELSE /\ last' = [op |-> "recover_for", before |-> cur, self_after |-> r.self,
                            ret |-> r.ret, u |-> except, rate |-> rate,
                            panicked |-> FALSE]
                /\ cur' = r.ret
    /\ nops' = nops + 1
    /\ UNCHANGED <<variant, walkerVars, adjVars, extVars>>

\* pathfinding.rs 177-183
app_visit(u) ==
    /\ variant = "app" /\ CanCall
    /\ LET g == app_zero_score(cur, u)
       IN  /\ last' = [op |-> "app_zero_score", before |-> cur, self_after |-> g,
                       ret |-> NoGraph, u |-> u, rate |-> 0, panicked |-> FALSE]
           /\ cur' = g
    /\ nops' = nops + 1
    /\ UNCHANGED <<variant, walkerVars, adjVars, extVars>>

\* pathfinding.rs 150-158
app_recover(rate, except) ==
    /\ variant = "app" /\ CanCall
    /\ LET r == app_recover_for(cur, U32(rate), except)
       IN  \E overflow_checks \in (IF r.overflow THEN BOOLEAN ELSE {FALSE}) :
           IF overflow_checks /\ r.overflow
           THEN /\ last' = [op |-> "app_recover_for", before |-> cur,
                            self_after |-> r.partial, ret |-> NoGraph, u |-> except,
                            rate |-> rate, panicked |-> TRUE]
                /\ cur' = r.partial
           ELSE /\ last' = [op |-> "app_recover_for", before |-> cur,
                            self_after |-> r.self, ret |-> NoGraph, u |-> except,
                            rate |-> rate, panicked |-> FALSE]
                /\ cur' = r.self
    /\ nops' = nops + 1
    /\ UNCHANGED <<variant, walkerVars, adjVars, extVars>>

NextGrid ==
    \/ \E u \in Cells(size(cur)) : visit(u)
    \/ \E u \in Cells(size(cur)) : app_visit(u)
    \/ \E rate \in 0..MaxRate, except \in Cells(size(cur)) : recover(rate, except)
    \/ \E rate \in 0..MaxRate, except \in Cells(size(cur)) : app_recover(rate, except)

SpecGrid == InitGrid /\ [][NextGrid]_vars

\* the grid a call leaves behind: the returned one (crate), the receiver (app)
ResultOf(call) == IF call.op \in {"reset_score", "recover_for"} THEN call.ret
                  ELSE call.self_after

\* C7: after any sequence of visit and recover operations every cell's reward
\* is >= 0 (limb form: top limb >= 0, low limb a proper digit).
C7_RewardsNonNegative ==
    \A c \in Cells(size(cur)) :
        LET v == get_node_at(cur, c)
        IN  v[1] >= 0 /\ v[2] \in 0..(LimbBase - 1)

\* a recover that wrapped around, after a visit
C7_Witness ==
    /\ nops = 2 /\ last.op = "recover_for" /\ ~ last.panicked
    /\ overflow_cells(last.before, U32(last.rate), last.u) # {}

\* C8: recover(rate, except) yields a grid of the same size in which every
\* cell but `except` holds exactly its previous reward plus rate, and `except`
\* holds its previous reward, for every rate and every previous reward.
C8_RecoverAddsRate ==
    last.op \in {"recover_for", "app_recover_for"} =>
        /\ ~ last.panicked
        /\ size(ResultOf(last)) = size(last.before)
        /\ \A c \in Cells(size(last.before)) :
              get_node_at(ResultOf(last), c) =
                 IF c = last.u THEN get_node_at(last.before, c)
                 ELSE ExactAdd(get_node_at(last.before, c), U32(last.rate))

\* C9: reset_score(cell) returns a grid in which the cell holds 0 and every
\* other cell what it held before; the grid it was called on is unchanged.
C9_VisitZeroesOneCell ==
    last.op = "reset_score" =>
        /\ last.self_after = last.before
        /\ size(last.ret) = size(last.before)
        /\ \A c \in Cells(size(last.before)) :
              get_node_at(last.ret, c) =
                 IF c = last.u THEN U32(0) ELSE get_node_at(last.before, c)

C9_Witness ==
    /\ last.op = "reset_score" /\ size(last.before) >= 2
    /\ get_node_at(last.before, last.u) # U32(0)
    /\ get_node_at(last.ret, last.u) = U32(0)

-----------------------------------------------------------------------------
(* Adjacency: Graph::new builds the app's `edges` cell by cell; get_neighbors *)
(* is then asked for the neighbours of a cell.                               *)

InitAdj ==
    /\ variant \in {"crate", "app"}
    /\ adj_size \in 1..MaxAdjSize
    /\ adj_edges = EmptyMap
    /\ adj_k = 0
    /\ adj_query = NoQuery
    /\ walkerIdle /\ gridIdle /\ extIdle

\* pathfinding.rs 85-102: one iteration of the (i, j) loops of Graph::new
new_cell ==
    /\ variant = "app" /\ adj_k < adj_size * adj_size
    /\ LET u == loop_cell(adj_size, adj_k)
       IN  adj_edges' = add_edges_of_cell(adj_edges, adj_size, u, 0)
    /\ adj_k' = adj_k + 1
    /\ UNCHANGED <<variant, adj_size, adj_query, walkerVars, gridVars, extVars>>

\* lib.rs 141-156, on a graph made by Graph::new(adj_size)
neighbors_query(u) ==
    /\ variant = "crate"
    /\ adj_query' = [asked |-> TRUE, u |-> u, out |-> get_neighbors(Graph_new(adj_size), u)]
    /\ UNCHANGED <<variant, adj_size, adj_edges, adj_k, walkerVars, gridVars, extVars>>

\* pathfinding.rs 142-144, once Graph::new has returned; None reads as no neighbours
app_neighbors_query(u) ==
    /\ variant = "app" /\ adj_k = adj_size * adj_size
    /\ adj_query' = [asked |-> TRUE, u |-> u,
                     out |-> app_get_neighbors([nodes |-> <<>>, edges |-> adj_edges], u).vec]
    /\ UNCHANGED <<variant, adj_size, adj_edges, adj_k, walkerVars, gridVars, extVars>>

NextAdj ==
    \/ new_cell
    \/ \E u \in Cells(adj_size) : neighbors_query(u)
    \/ \E u \in Cells(adj_size) : app_neighbors_query(u)

SpecAdj == InitAdj /\ [][NextAdj]_vars

Range(seq) == {seq[k] : k \in 1..Len(seq)}

\* the cells of the grid at Chebyshev distance 1 of u
Around(n, u) == {c \in Cells(n) : Adjacent(u, c)}

\* p comes before q in row-major order
RowMajorBefore(p, q) == p[1] < q[1] \/ (p[1] = q[1] /\ p[2] < q[2])

OnBorder(n, u, k) == Cardinality({x \in {1, 2} : u[x] = 0 \/ u[x] = n - 1}) = k

\* an adjacency list names exactly the in-bounds cells around u, each once
IsAdjacencyOf(n, u, out) ==
    /\ Range(out) = Around(n, u)
    /\ Len(out) = Cardinality(Range(out))
    /\ \A c \in Range(out) : c \in Cells(n) /\ c # u
    /\ Len(out) <= 8
    /\ (n >= 3 /\ OnBorder(n, u, 2)) => Len(out) = 3
    /\ (n >= 3 /\ OnBorder(n, u, 1)) => Len(out) = 5

\* C6: the adjacency of a cell is exactly the set of in-bounds cells at
\* Chebyshev distance 1: in bounds, never the cell itself, none twice, at most
\* 8 (3 at corners, 5 on edges when size >= 3); get_neighbors lists them in
\* row-major order; Graph::new stores the same set for every cell it handled.
C6_Adjacency ==
    /\ adj_query.asked =>
          /\ IsAdjacencyOf(adj_size, adj_query.u, adj_query.out)
          /\ variant = "crate" =>
                \A a, b \in 1..Len(adj_query.out) :
                    a < b => RowMajorBefore(adj_query.out[a], adj_query.out[b])
    /\ \A m \in 0..(adj_k - 1) :
          LET u == loop_cell(adj_size, m)
          IN  IF u \in DOMAIN adj_edges
              THEN IsAdjacencyOf(adj_size, u, adj_edges[u])
              ELSE Around(adj_size, u) = {}
    /\ \A u \in DOMAIN adj_edges :
          \E m \in 0..(adj_k - 1) : u = loop_cell(adj_size, m)

\* an inner cell with all eight neighbours, asked of get_neighbors
C6_Witness ==
    /\ variant = "crate" /\ adj_query.asked /\ adj_size >= 3
    /\ Len(adj_query.out) = 8

-----------------------------------------------------------------------------
(* The edge-flow planner Graph::lp (lp.rs).  An Edge is <<from, to>>.  The     *)
(* record `lp` holds the locals of one call; Option<Position> is <<>> for     *)
(* None and <<pos>> for Some(pos).                                            *)

MaxLpSteps == 4     \* budgets 0..MaxLpSteps on the grids of size 1 and 2

Edge_new(from, to) == <<from, to>>

get_edges_out(g, pos) ==
    LET nbrs == get_neighbors(g, pos)
    IN  [k \in 1..Len(nbrs) |-> Edge_new(pos, nbrs[k])]

RECURSIVE nodes_in_from(_, _, _)
\* Graph::get_edges_in: the cells that have `pos` among their neighbours, row-major
nodes_in_from(g, pos, k) ==
    IF k >= size(g) * size(g) THEN <<>>
    ELSE LET c == loop_cell(size(g), k)
         IN  IF \E m \in 1..Len(get_neighbors(g, c)) : get_neighbors(g, c)[m] = pos
             THEN <<c>> \o nodes_in_from(g, pos, k + 1)
             ELSE nodes_in_from(g, pos, k + 1)

get_edges_in(g, pos) ==
    LET ins == nodes_in_from(g, pos, 0)
    IN  [k \in 1..Len(ins) |-> Edge_new(ins[k], pos)]

\* Node::neighbour: the node an edge leads to, and the edges to look at next
Node_neighbour(edge, g) ==
    [node |-> edge[2],
     edges |-> get_edges_in(g, edge[1]) \o get_edges_out(g, edge[2])]

\* Node::start
Node_start(g, pos) == [node |-> pos, edges |-> get_edges_out(g, pos)]

RECURSIVE traverse_for_unseen(_, _, _)
\* mutant of traverse_for: an edge is pushed whether it was seen or not
traverse_for_unseen(l, neighbor_edges, k) ==
    IF k > Len(neighbor_edges) THEN l
    ELSE LET x == neighbor_edges[k]
         IN  traverse_for_unseen([l EXCEPT !.seen_edges = @ \cup {x},
                                           !.edges = @ \cup {x},
                                           !.stack = Append(@, x),
                                           !.pushed = Append(@, x)],
                                 neighbor_edges, k + 1)

RECURSIVE traverse_for(_, _, _)
\* the `for x in neighbor_edges.iter()` loop of the traversal
\* (`pushed` is a ghost: every edge pushed on the stack so far, in order)
traverse_for(l, neighbor_edges, k) ==
    IF k > Len(neighbor_edges) THEN l
    ELSE LET x == neighbor_edges[k]
         IN  IF x \in l.seen_edges
             THEN traverse_for(l, neighbor_edges, k + 1)
             ELSE traverse_for([l EXCEPT !.seen_edges = @ \cup {x},
                                         !.edges = @ \cup {x},
                                         !.stack = Append(@, x),
                                         !.pushed = Append(@, x)],
                               neighbor_edges, k + 1)

RECURSIVE KSubsets(_, _)
\* the subsets of S with exactly k elements
KSubsets(S, k) ==
    IF k = 0 THEN {{}}
    ELSE IF Cardinality(S) < k THEN {}
    ELSE LET x == CHOOSE y \in S : TRUE
         IN  KSubsets(S \ {x}, k) \cup {A \cup {x} : A \in KSubsets(S \ {x}, k - 1)}

RECURSIVE SumOver(_, _)
SumOver(S, f) ==
    IF S = {} THEN 0
    ELSE LET x == CHOOSE y \in S : TRUE IN f[x] + SumOver(S \ {x}, f)

\* value of the binary variable of edge e in the assignment x (the edges set to 1)
value(x, e) == IF e \in x THEN 1 ELSE 0

\* sum_var over the edges of a Vec that have a variable (filter_map on edge_vars)
sum_var(l, x, edge_vec) ==
    Cardinality({k \in 1..Len(edge_vec) :
                    edge_vec[k] \in l.edges /\ value(x, edge_vec[k]) = 1})

\* the constraint added for one node of `nodes`, given its edges_in and edges_out
node_constraint(l, x, node, edges_in, edges_out) ==
    LET lhs == sum_var(l, x, edges_in)
        rhs == sum_var(l, x, edges_out)
    IN  IF node = l.start THEN rhs = 1 ELSE lhs - rhs = 0

\* sum_of_variables == max_timesteps
budget_constraint(l, x) == Cardinality(x) = l.max_timesteps

\* the objective: var * score(edge.to), summed over the edges
objective(l, x) ==
    SumOver(x, [e \in l.edges |-> Val(get_node_at(l.graph, e[2]))])

\* 0/1 assignments that meet the budget constraint and, when the start is a
\* node of the program, its constraint: every feasible assignment is one of them
candidates(l) ==
    IF l.start \in l.nodes
    THEN LET out == {e \in l.edges : e[1] = l.start}
         IN  IF l.max_timesteps = 0 THEN {}
             ELSE UNION { {A \cup {e} : A \in KSubsets(l.edges \ out, l.max_timesteps - 1)}
                          : e \in out }
    ELSE KSubsets(l.edges, l.max_timesteps)

feasible(l) ==
    LET edges_in == [node \in l.nodes |-> get_edges_in(l.graph, node)]
        edges_out == [node \in l.nodes |-> get_edges_out(l.graph, node)]
    IN  {x \in candidates(l) :
            /\ \A node \in l.nodes :
                  node_constraint(l, x, node, edges_in[node], edges_out[node])
            /\ budget_constraint(l, x)}

\* the assignments of F with the greatest objective
maximise(l, F) == {x \in F : \A y \in F : objective(l, y) <= objective(l, x)}

\* solver.solve(): Err (no outcome here) when the program has no feasible
\* assignment, else any assignment of greatest objective
solve(l) == UNION {maximise(l, F) : F \in {feasible(l)}}

None == <<>>

Some(pos) == <<pos>>

\* the 3x3 fixture is planned with the budget of test_lp and the one below it;
\* the other grids have size 1 or 2
LpInputs ==
    UNION { [self : {g}, start : Cells(g.size), max_timesteps : 0..MaxLpSteps]
            : g \in {h \in InputGrids : h.size <= 2} }
    \cup [self : {TestGrid}, start : {<<0, 0>>}, max_timesteps : {2, 3}]

InitLp ==
    /\ variant = "crate"
    /\ \E i \in LpInputs :
         lp = [pc |-> "call", self |-> i.self, start |-> i.start,
               max_timesteps |-> i.max_timesteps,
               graph |-> NoGraph, stack |-> <<>>, edges |-> {}, seen_edges |-> {},
               nodes |-> {}, solution |-> {}, step |-> 0, path |-> <<>>,
               current_pos |-> None, pushed |-> <<>>]
    /\ tlp = Idle /\ ld = Idle /\ cli = Idle
    /\ walkerIdle /\ gridIdle /\ adjIdle

\* lp.rs 59-82: the clone, the start node and its edges
lp_call ==
    /\ lp.pc = "call"
    /\ LET graph_ == lp.self
           initial_edges == Node_start(graph_, lp.start).edges
       IN  lp' = [lp EXCEPT !.pc = "traverse", !.graph = graph_,
                            !.stack = initial_edges,
                            !.pushed = initial_edges,
                            !.edges = {initial_edges[k] : k \in 1..Len(initial_edges)}]
    /\ UNCHANGED <<variant, walkerVars, gridVars, adjVars, tlp, ld, cli>>

\* lp.rs 85-99: one pass of `while let Some(edge) = stack.pop()`
lp_traverse ==
    /\ lp.pc = "traverse" /\ lp.stack # <<>>
    /\ LET edge == lp.stack[Len(lp.stack)]
           nb == Node_neighbour(edge, lp.graph)
           popped == [lp EXCEPT !.stack = SubSeq(@, 1, Len(@) - 1),
                                !.nodes = @ \cup {nb.node}]
       IN  lp' = traverse_for(popped, nb.edges, 1)
    /\ UNCHANGED <<variant, walkerVars, gridVars, adjVars, tlp, ld, cli>>

\* lp.rs 101-183: the program is built and solved; `expect` panics on Err;
\* then the first step is pushed
lp_solve ==
    /\ lp.pc = "traverse" /\ lp.stack = <<>>
    /\ \E S \in {solve(lp)} :
           IF S = {}
           THEN lp' = [lp EXCEPT !.pc = "panicked"]
           ELSE \E solution \in S :
                   lp' = [lp EXCEPT !.pc = "decode", !.solution = solution,
                                    !.step = 1,
                                    !.path = <<[node |-> lp.start,
                                                score |-> get_node_at(lp.graph, lp.start),
                                                step |-> 1]>>,
                                    !.current_pos = Some(lp.start)]
    /\ UNCHANGED <<variant, walkerVars, gridVars, adjVars, tlp, ld, cli>>

\* mutant of selected: any edge that has a variable is followed
selected_any(l, edge) == edge \in l.edges

\* lp.rs 192-193: `Some(val) if val == 1.0` on edge_vars.get(&edge)
selected(l, edge) == edge \in l.edges /\ value(l.solution, edge) = 1

RECURSIVE decode_for(_, _, _, _)
\* lp.rs 190-203: `for to in graph.get_nodes_out(from)`
decode_for(l, from, nodes_out, k) ==
    IF k > Len(nodes_out) THEN l
    ELSE LET to == nodes_out[k]
             edge == Edge_new(from, to)
         IN  IF selected(l, edge)
             THEN [l EXCEPT !.step = @ + 1,
                            !.path = Append(@, [node |-> to,
                                                score |-> get_node_at(l.graph, to),
                                                step |-> l.step + 1]),
                            !.current_pos = Some(to)]
             ELSE decode_for([l EXCEPT !.current_pos = None], from, nodes_out, k + 1)

\* lp.rs 186-207: one pass of `while let Some(from) = current_pos`; the result
\* is returned when the loop is left
lp_decode ==
    /\ lp.pc = "decode"
    /\ IF lp.current_pos = None \/ lp.step = lp.max_timesteps
       THEN lp' = [lp EXCEPT !.pc = "returned"]
       ELSE LET from == lp.current_pos[1]
            IN  lp' = decode_for(lp, from, get_neighbors(lp.graph, from), 1)
    /\ UNCHANGED <<variant, walkerVars, gridVars, adjVars, tlp, ld, cli>>

NextLp == lp_call \/ lp_traverse \/ lp_solve \/ lp_decode

SpecLp == InitLp /\ [][NextLp]_vars

\* the call runs on its thread without being suspended for ever: a decoding
\* loop that can make a pass makes it
SpecLpFair == SpecLp /\ WF_vars(lp_decode)

-----------------------------------------------------------------------------
(* Properties of the edge-flow planner *)

RECURSIVE bfs_loop(_, _, _, _)
\* bfs.rs 47-76 run to its end on rewards that do not overflow: the path
bfs_loop(g, q, path_, rate) ==
    IF q = <<>> THEN path_
    ELSE LET popped == heap_pop(q)
             state == popped.item
         IN  IF state.timesteps_remaining = 0 THEN path_
             ELSE LET rec == recover_for(reset_score(g, state.node).ret,
                                         U32(rate), state.node)
                  IN  bfs_loop(rec.ret,
                               push_all(clear(popped.rest), rec.ret.nodes,
                                        get_neighbors(rec.ret, state.node),
                                        state.timesteps_remaining - 1, 1),
                               Append(path_, [node |-> state.node,
                                              score |-> get_node_at(g, state.node),
                                              step |-> Len(path_) + 1]),
                               rate)

\* bfs.rs 34-79: the PathfindingResult of a call whose start is a cell of the grid
path_planning_bfs(g, start, max_timesteps, rate) ==
    [path |-> bfs_loop(g, heap_push(<<>>, [score |-> get_node_at(g, start),
                                           timesteps_remaining |-> max_timesteps,
                                           node |-> start]),
                       <<>>, rate)]

Max(S) == CHOOSE m \in S : \A x \in S : x <= m

RECURSIVE BestWalk(_, _, _)
\* the greatest total static reward of a walk of k cells that starts at c
BestWalk(g, c, k) ==
    IF k <= 1 THEN Val(get_node_at(g, c))
    ELSE Val(get_node_at(g, c))
         + Max({BestWalk(g, get_neighbors(g, c)[m], k - 1)
                  : m \in 1..Len(get_neighbors(g, c))})

\* C11: when the program has no feasible assignment (any budget >= 1 on a grid
\* of size 1, for one), lp returns a reported planning failure: it never panics.
C11_InfeasibleReported == lp.pc # "panicked"

\* C12: whenever the edge-flow planner returns, the total score of its decoded
\* trajectory is at least the score the greedy walker returns for the same grid,
\* start and budget, whatever the recovery rate.
C12_ExactBeatsGreedy ==
    lp.pc = "returned" =>
        \A rate \in 0..MaxRate :
            Val(result_score(lp.path).value) >=
                Val(result_score(path_planning_bfs(lp.self, lp.start,
                                                   lp.max_timesteps, rate).path).value)

\* C13: on a grid of size >= 2, lp returns exactly max_timesteps cells: the first
\* is the start, each next one is adjacent to the one before, each records the
\* cell's static reward, and their total is the greatest of any walk of that many
\* cells from the start; on the 3x3 fixture with budget 3 it is (0,0), (1,1), (2,1).
C13_BestStaticWalk ==
    (lp.pc = "returned" /\ size(lp.self) >= 2) =>
        /\ Len(lp.path) = lp.max_timesteps
        /\ lp.path[1].node = lp.start
        /\ \A k \in 2..Len(lp.path) : Adjacent(lp.path[k - 1].node, lp.path[k].node)
        /\ \A k \in 1..Len(lp.path) :
              lp.path[k].score = get_node_at(lp.self, lp.path[k].node)
        /\ Val(result_score(lp.path).value) =
              BestWalk(lp.self, lp.start, lp.max_timesteps)
        /\ (lp.self = TestGrid /\ lp.start = <<0, 0>> /\ lp.max_timesteps = 3) =>
              [k \in 1..3 |-> lp.path[k].node] = << <<0, 0>>, <<1, 1>>, <<2, 1>> >>

\* C19: the trajectory lp returns has the start cell as step 1, steps numbered
\* 1, 2, 3, ... without a gap, every later step reached from the step before
\* over an edge whose variable has value 1 in the solution, and no more steps
\* than max_timesteps.
C19_DecodedFollowsSolution ==
    lp.pc = "returned" =>
        /\ Len(lp.path) >= 1
        /\ lp.path[1].node = lp.start
        /\ \A k \in 1..Len(lp.path) : lp.path[k].step = k
        /\ \A k \in 2..Len(lp.path) :
              LET edge == Edge_new(lp.path[k - 1].node, lp.path[k].node)
              IN  edge \in lp.edges /\ value(lp.solution, edge) = 1
        /\ Len(lp.path) <= lp.max_timesteps

\* a returned trajectory of at least three steps, so two edges were followed
C19_Witness ==
    /\ lp.pc = "returned" /\ Len(lp.path) >= 3
    /\ lp.path[Len(lp.path)].step = Len(lp.path)

\* C20: once the solution is there, the decoding loop ends and lp returns, on
\* every grid and for every budget (budget 0 and a start without outgoing edges
\* included).
C20_DecodeTerminates == (lp.pc = "decode") ~> (lp.pc = "returned")

-----------------------------------------------------------------------------
(* The time-indexed planner Graph::path_planning_lp (src/pathfinding.rs).     *)
(* An assignment gives, per timestep t (index t + 1), the cells whose move    *)
(* variable x is 1, the cells whose visit variable v is 1 and the score       *)
(* variable s of every cell; z is bounded by them.                            *)

MaxTlpSteps == 3    \* budgets 0..MaxTlpSteps

\* value of a binary variable of the cube, given the cells where it is 1
bin(ones, c) == IF c \in ones THEN 1 ELSE 0

\* pathfinding.rs 256: s[x][y][0] == initial score
initial_scores(l) == [c \in Cells(size(l.self)) |-> Val(get_node_at(l.self, c))]

\* pathfinding.rs 265: s[t] == s[t-1] + recovery_rate * (1 - v[t])
score_recurrence(l, s_prev, v_t, c) ==
    s_prev[c] + l.recovery_rate * (1 - bin(v_t, c))

\* pathfinding.rs 267: "Cannot exceed max score"
score_ceiling(l, s_prev, c) == s_prev[c] <= initial_scores(l)[c]

\* pathfinding.rs 269-279: v[t] == sum of x[neighbor][t-1], where the cell has
\* an entry in `edges`
visit_constraint(l, x_prev, v_t, c) ==
    LET neighbors == app_get_neighbors(l.self, c)
    IN  neighbors.some =>
            bin(v_t, c) = Cardinality({k \in 1..Len(neighbors.vec) :
                                          neighbors.vec[k] \in x_prev})

\* pathfinding.rs 282-288: some z[t] lies between 0 and its three upper bounds
collected_constraint(l, s_t, v_t, c) ==
    LET init == initial_scores(l)[c]
    IN  /\ 0 <= s_t[c]
        /\ 0 <= bin(v_t, c) * init
        /\ 0 <= s_t[c] - (1 - bin(v_t, c)) * init

\* the ways to give timestep t its values so that the constraints added for t
\* (pathfinding.rs 262-290) hold on top of the assignment a of the timesteps before
extend(l, a) ==
    LET cells == Cells(size(l.self))
        x_prev == a.x[Len(a.x)]
        s_prev == a.s[Len(a.s)]
    IN  {[x |-> Append(a.x, x_t), v |-> Append(a.v, v_t),
          s |-> Append(a.s, [c \in cells |-> score_recurrence(l, s_prev, v_t, c)])]
            : x_t \in SUBSET cells,
              v_t \in {w \in SUBSET cells :
                         \A c \in cells :
                            /\ score_ceiling(l, s_prev, c)
                            /\ visit_constraint(l, x_prev, w, c)
                            /\ collected_constraint(
                                  l, [d \in cells |-> score_recurrence(l, s_prev, w, d)],
                                  w, c)}}

RECURSIVE assignments(_, _)
\* the assignments of timesteps 0..t that meet the constraints on them
\* (pathfinding.rs 251-258 for t = 0)
assignments(l, t) ==
    IF t = 0
    THEN {[x |-> <<x_0>>, v |-> <<v_0>>, s |-> <<initial_scores(l)>>]
            : x_0 \in {w \in SUBSET Cells(size(l.self)) : bin(w, l.start) = 1},
              v_0 \in SUBSET Cells(size(l.self))}
    ELSE UNION {extend(l, a) : a \in assignments(l, t - 1)}

\* the feasible region of the program, z left out
tlp_feasible(l) == assignments(l, l.max_timesteps - 1)

\* pathfinding.rs 238-247, 282-286: z[i][j][t] is a free `variable()` of the
\* maximised sum and gets upper bounds only in the loop over t in 1..nr_timesteps
z_bounded_above(l, t) == t \in 1..(l.max_timesteps - 1)

unbounded(l) ==
    \E c \in Cells(size(l.self)), t \in 0..(l.max_timesteps - 1) : ~z_bounded_above(l, t)

\* solver.solve(): Err(Infeasible) or Err(Unbounded) when there is no optimum
tlp_solve_result(l, is_feasible) ==
    IF ~is_feasible THEN "Infeasible"
    ELSE IF unbounded(l) THEN "Unbounded"
    ELSE "Ok"

\* PathfindingResult::empty()
PathfindingResult_empty == [score |-> U32(0), path |-> <<>>]

TlpGrids == {GridOf(1, [c \in Cells(1) |-> 5]), PeakGrid(2, <<0, 0>>)}

TlpInputs ==
    UNION { [self : {AppGraph(g)}, start : Cells(g.size),
             max_timesteps : 0..MaxTlpSteps, recovery_rate : 0..MaxRate]
            : g \in TlpGrids }

InitTlp ==
    /\ variant = "app"
    /\ \E i \in TlpInputs :
         tlp = [pc |-> "call", self |-> i.self, start |-> i.start,
                max_timesteps |-> i.max_timesteps, recovery_rate |-> i.recovery_rate,
                point |-> None, result |-> None]
    /\ lp = Idle /\ ld = Idle /\ cli = Idle
    /\ walkerIdle /\ gridIdle /\ adjIdle

\* pathfinding.rs 228-292: the variables and the constraints; with no timestep
\* x[start.0][start.1][0] indexes an empty Vec and panics
tlp_call ==
    /\ tlp.pc = "call"
    /\ tlp' = [tlp EXCEPT !.pc = IF tlp.max_timesteps = 0 THEN "panicked" ELSE "built"]
    /\ UNCHANGED <<variant, walkerVars, gridVars, adjVars, lp, ld, cli>>

\* ghost: one point of the feasible region of the program that was built
tlp_point ==
    /\ tlp.pc = "built" /\ tlp.point = None
    /\ \E a \in tlp_feasible(tlp) : tlp' = [tlp EXCEPT !.point = Some(a)]
    /\ UNCHANGED <<variant, walkerVars, gridVars, adjVars, lp, ld, cli>>

\* pathfinding.rs 294-306: solve().unwrap(), the printing loop, the result
tlp_solve ==
    /\ tlp.pc = "built"
    /\ LET is_feasible == tlp.point # None \/ tlp_feasible(tlp) # {}
       IN  IF tlp_solve_result(tlp, is_feasible) = "Ok"
           THEN tlp' = [tlp EXCEPT !.pc = "returned",
                                   !.result = Some(PathfindingResult_empty)]
           ELSE tlp' = [tlp EXCEPT !.pc = "panicked"]
    /\ UNCHANGED <<variant, walkerVars, gridVars, adjVars, lp, ld, cli>>

NextTlp == tlp_call \/ tlp_point \/ tlp_solve

SpecTlp == InitTlp /\ [][NextTlp]_vars

-----------------------------------------------------------------------------
(* Properties of the time-indexed planner *)

\* C14: called with a budget >= 1 on a program that has a feasible point, the
\* time-indexed planner returns a trajectory read from the solution: one step
\* per timestep, ordered by time, beginning at the start, hence not empty.
C14_TrajectoryFromVisits ==
    (tlp.pc \in {"returned", "panicked"} /\ tlp.max_timesteps >= 1
        /\ tlp.point # None) =>
        /\ tlp.pc = "returned"
        /\ LET path_ == tlp.result[1].path
           IN  /\ Len(path_) = tlp.max_timesteps
               /\ path_[1].node = tlp.start

\* C15: in every feasible point of the program the score variable of a cell at
\* timestep t >= 1 is the grid's value after the same visits: 0 when the cell is
\* visited at t, the score at t - 1 plus the recovery rate when it is not.
C15_ScoreFollowsGrid ==
    tlp.point # None =>
        LET a == tlp.point[1]
        IN  \A t \in 1..(tlp.max_timesteps - 1) : \A c \in Cells(size(tlp.self)) :
                a.s[t + 1][c] =
                    IF c \in a.v[t + 1] THEN 0 ELSE a.s[t][c] + tlp.recovery_rate

-----------------------------------------------------------------------------
(* The loader Graph::from_file / Graph::from_bytes.  A text is a sequence of   *)
(* characters (one-character strings); bytes are numbers.                     *)

MaxLoadSize == 2    \* texts of 1..MaxLoadSize rows

DigitChars == <<"0", "1", "2", "3", "4", "5", "6", "7", "8", "9">>

IsDigit(ch) == \E d \in 1..10 : DigitChars[d] = ch

digit_value(ch) == (CHOOSE d \in 1..10 : DigitChars[d] = ch) - 1

Err == [ok |-> FALSE, value |-> U32(0)]

RECURSIVE parse_digits(_, _, _)
\* u32::from_str: result = result * 10 + digit, both checked
parse_digits(str, k, acc) ==
    IF k > Len(str) THEN [ok |-> TRUE, value |-> acc]
    ELSE IF ~IsDigit(str[k]) THEN Err
    ELSE LET lo == acc[2] * 10 + digit_value(str[k])
             hi == acc[1] * 10 + (lo \div LimbBase)
         IN  IF hi >= LimbBase THEN Err
             ELSE parse_digits(str, k + 1, <<hi, lo % LimbBase>>)

\* str.parse::<u32>(): an optional "+", then at least one digit
parse_u32(str) ==
    LET digits == IF str # <<>> /\ Head(str) = "+" THEN Tail(str) ELSE str
    IN  IF digits = <<>> THEN Err ELSE parse_digits(digits, 1, U32(0))

RECURSIVE split_from(_, _, _, _)
\* str.split(pat) for a one-character pattern: every occurrence ends a piece
split_from(str, pat, k, piece) ==
    IF k > Len(str) THEN <<piece>>
    ELSE IF str[k] = pat THEN <<piece>> \o split_from(str, pat, k + 1, <<>>)
    ELSE split_from(str, pat, k + 1, Append(piece, str[k]))

split(str, pat) == split_from(str, pat, 1, <<>>)

\* a line without the "\r" of a "\r\n" ending
strip_cr(line) ==
    IF line # <<>> /\ line[Len(line)] = "\r" THEN SubSeq(line, 1, Len(line) - 1)
    ELSE line

\* str.lines(): split at "\n" or "\r\n"; the final line ending is optional
lines(contents) ==
    LET pieces == split(contents, "\n")
        kept == IF pieces[Len(pieces)] = <<>>
                THEN SubSeq(pieces, 1, Len(pieces) - 1) ELSE pieces
    IN  [k \in 1..Len(kept) |->
            IF k < Len(pieces) THEN strip_cr(kept[k]) ELSE kept[k]]

RECURSIVE load_line(_, _, _, _)
\* the inner loop: `for (j, c) in line.split(" ").enumerate()`; parse().expect
\* panics on Err, add_node panics when j is not an index of the row
load_line(g, i, tokens, j) ==
    IF j >= Len(tokens) THEN [panicked |-> FALSE, graph |-> g]
    ELSE LET score_ == parse_u32(tokens[j + 1])
         IN  IF ~score_.ok \/ i >= size(g) \/ j >= size(g)
             THEN [panicked |-> TRUE, graph |-> g]
             ELSE load_line(add_node(g, <<i, j>>, score_.value), i, tokens, j + 1)

RECURSIVE load_lines(_, _, _)
\* the outer loop: `for (i, line) in lines`
load_lines(g, ls, i) ==
    IF i >= Len(ls) THEN [panicked |-> FALSE, graph |-> g]
    ELSE LET row == load_line(g, i, split(ls[i + 1], " "), 0)
         IN  IF row.panicked THEN row ELSE load_lines(row.graph, ls, i + 1)

\* Graph::from_file on a file that holds `contents`
from_file(contents) ==
    LET ls == lines(contents)
        grid_size == Len(ls)
    IN  load_lines(Graph_new(grid_size), ls, 0)

\* the bytes of the characters of the texts (ASCII)
Ascii ==
    [ch \in {DigitChars[d] : d \in 1..10} \cup {" ", "\t", "\n", "\r", "+"} |->
        IF IsDigit(ch) THEN 48 + digit_value(ch)
        ELSE IF ch = " " THEN 32 ELSE IF ch = "\t" THEN 9
        ELSE IF ch = "\n" THEN 10 ELSE IF ch = "\r" THEN 13 ELSE 43]

\* String::from_utf8 on bytes below 128: the character of each byte
String_from_utf8(bytes) ==
    IF \E k \in 1..Len(bytes) : \A ch \in DOMAIN Ascii : Ascii[ch] # bytes[k]
    THEN [ok |-> FALSE, value |-> <<>>]
    ELSE [ok |-> TRUE,
          value |-> [k \in 1..Len(bytes) |-> CHOOSE ch \in DOMAIN Ascii : Ascii[ch] = bytes[k]]]

\* Graph::from_bytes
from_bytes(bytes) ==
    LET contents == String_from_utf8(bytes)
    IN  IF ~contents.ok THEN [panicked |-> TRUE, graph |-> NoGraph]
        ELSE from_file(contents.value)

-----------------------------------------------------------------------------
(* The texts the loader is run on: rows of integers written in decimal,       *)
(* separated by whitespace, one row per line.                                 *)

\* integers with their decimal text and their u32 value (the last is u32::MAX)
Tokens ==
    << [digits |-> <<"0">>, value |-> <<0, 0>>],
       [digits |-> <<"5">>, value |-> <<0, 5>>],
       [digits |-> <<"1", "2">>, value |-> <<0, 12>>],
       [digits |-> <<"4", "2", "9", "4", "9", "6", "7", "2", "9", "5">>,
        value |-> <<65535, 65535>>] >>

\* whitespace between two integers of a row
Separators == << <<" ">>, <<" ", " ">>, <<"\t">> >>

LineEndings == << <<"\n">>, <<"\r", "\n">> >>

RECURSIVE join(_, _, _)
\* the pieces from the k-th on, with `between` between them
join(pieces, between, k) ==
    IF k > Len(pieces) THEN <<>>
    ELSE IF k = Len(pieces) THEN pieces[k]
    ELSE pieces[k] \o between \o join(pieces, between, k + 1)

\* the text of the n x n integers token_of[<<i, j>>]
text_of(n, token_of, separator, ending, final_ending) ==
    LET row(i) == join([j \in 1..n |-> Tokens[token_of[<<i - 1, j - 1>>]].digits],
                       separator, 1)
    IN  join([i \in 1..n |-> row(i)], ending, 1)
        \o (IF final_ending THEN ending ELSE <<>>)

\* n x n integers: the token at (i, j) is number (a*i + b*j + c) mod 4 of Tokens
Matrices(n) ==
    {[u \in Cells(n) |-> ((abc[1] * u[1] + abc[2] * u[2] + abc[3]) % Len(Tokens)) + 1]
        : abc \in (0..3) \X (0..3) \X (0..3)}

LoadInputs ==
    UNION { [n : {n}, token_of : Matrices(n), separator : 1..Len(Separators),
             ending : 1..Len(LineEndings), final_ending : BOOLEAN]
            : n \in 1..MaxLoadSize }

InitLoad ==
    /\ variant \in {"crate", "app"}
    /\ \E i \in LoadInputs :
         ld = [pc |-> "text", written |-> i,
               contents |-> text_of(i.n, i.token_of, Separators[i.separator],
                                    LineEndings[i.ending], i.final_ending),
               call |-> "none", out |-> [panicked |-> FALSE, graph |-> NoGraph]]
    /\ lp = Idle /\ tlp = Idle /\ cli = Idle
    /\ walkerIdle /\ gridIdle /\ adjIdle

\* lib.rs 103-120
ld_from_file ==
    /\ variant = "crate" /\ ld.pc = "text"
    /\ ld' = [ld EXCEPT !.pc = "loaded", !.call = "from_file",
                        !.out = from_file(ld.contents)]
    /\ UNCHANGED <<variant, walkerVars, gridVars, adjVars, lp, tlp, cli>>

\* lib.rs 122-139, given the bytes of the text
ld_from_bytes ==
    /\ variant = "crate" /\ ld.pc = "text"
    /\ LET bytes == [k \in 1..Len(ld.contents) |-> Ascii[ld.contents[k]]]
       IN  ld' = [ld EXCEPT !.pc = "loaded", !.call = "from_bytes",
                            !.out = from_bytes(bytes)]
    /\ UNCHANGED <<variant, walkerVars, gridVars, adjVars, lp, tlp, cli>>

\* pathfinding.rs 123-140: the same loops on the app's Graph
ld_app_from_file ==
    /\ variant = "app" /\ ld.pc = "text"
    /\ LET loaded == from_file(ld.contents)
       IN  ld' = [ld EXCEPT !.pc = "loaded", !.call = "from_file",
                            !.out = [panicked |-> loaded.panicked,
                                     graph |-> AppGraph(loaded.graph)]]
    /\ UNCHANGED <<variant, walkerVars, gridVars, adjVars, lp, tlp, cli>>

NextLoad == ld_from_file \/ ld_from_bytes \/ ld_app_from_file

SpecLoad == InitLoad /\ [][NextLoad]_vars

\* C17: for every text of n rows of n whitespace-separated non-negative
\* integers, from_file and from_bytes return a grid of size n whose value at
\* (i, j) is the j-th integer of row i.
C17_LoadRoundTrip ==
    ld.pc = "loaded" =>
        /\ ~ld.out.panicked
        /\ size(ld.out.graph) = ld.written.n
        /\ \A u \in Cells(ld.written.n) :
              get_node_at(ld.out.graph, u) = Tokens[ld.written.token_of[u]].value

-----------------------------------------------------------------------------
(* The command-line front end (cli/src/main.rs): the main thread loads the    *)
(* grid, spawns the worker that runs the greedy walker, and waits for its     *)
(* result on an mpsc channel with a timeout.                                  *)

MaxCliSteps == 2    \* -T 0..MaxCliSteps
MaxRowLen == 3      \* rows of the grid file have 1..MaxRowLen integers

\* Option::unwrap_or
unwrap_or(opt, default) == IF opt = None THEN default ELSE opt[1]

\* the grid file: row i has lens[i] one-digit integers, separated by one space
cli_text(lens) ==
    join([i \in 1..Len(lens) |->
              join([j \in 1..lens[i] |-> <<DigitChars[((3 * i + 2 * j) % 10) + 1]>>],
                   <<" ">>, 1)],
         <<"\n">>, 1)

RowLens == UNION {[1..n -> 1..MaxRowLen] : n \in 1..2}

CliArgs ==
    [x : {None} \cup {Some(k) : k \in 0..2}, y : {None} \cup {Some(k) : k \in 0..2},
     max_timesteps : 0..MaxCliSteps, recovery_rate : {None}]

InitCli ==
    /\ variant = "crate"
    /\ \E a \in CliArgs, lens \in RowLens :
         cli = [pc |-> "main", args |-> a, lens |-> lens, contents |-> cli_text(lens),
                x |-> 0, y |-> 0, graph |-> NoGraph, recovery_rate |-> 0,
                worker |-> "none", result |-> None,
                chan |-> <<>>, tx |-> FALSE, rx |-> FALSE, sent |-> None,
                elapsed |-> FALSE, seen |-> <<>>, stdout |-> <<>>]
    /\ lp = Idle /\ tlp = Idle /\ ld = Idle
    /\ walkerIdle /\ gridIdle /\ adjIdle

\* main.rs 40-48: the arguments, the grid (a panic of from_file ends the
\* process), the channel
cli_load ==
    /\ cli.pc = "main"
    /\ LET loaded == from_file(cli.contents)
       IN  IF loaded.panicked
           THEN cli' = [cli EXCEPT !.pc = "panicked"]
           ELSE cli' = [cli EXCEPT !.pc = "loaded",
                                   !.x = unwrap_or(cli.args.x, 0),
                                   !.y = unwrap_or(cli.args.y, 0),
                                   !.graph = loaded.graph,
                                   !.recovery_rate = unwrap_or(cli.args.recovery_rate, 1),
                                   !.tx = TRUE, !.rx = TRUE]
    /\ UNCHANGED <<variant, walkerVars, gridVars, adjVars, lp, tlp, ld>>

\* main.rs 51: thread::spawn
cli_spawn ==
    /\ cli.pc = "loaded"
    /\ cli' = [cli EXCEPT !.pc = "recv", !.worker = "running"]
    /\ UNCHANGED <<variant, walkerVars, gridVars, adjVars, lp, tlp, ld>>

\* main.rs 52: the walker runs on the worker; a start that is no cell of the
\* grid makes get_score_at index out of bounds: the thread panics and drops tx
worker_plan ==
    /\ cli.worker = "running"
    /\ IF <<cli.x, cli.y>> \in Cells(size(cli.graph))
       THEN cli' = [cli EXCEPT !.worker = "computed",
                               !.result = Some(path_planning_bfs(
                                               cli.graph, <<cli.x, cli.y>>,
                                               cli.args.max_timesteps,
                                               cli.recovery_rate))]
       ELSE cli' = [cli EXCEPT !.worker = "panicked", !.tx = FALSE]
    /\ UNCHANGED <<variant, walkerVars, gridVars, adjVars, lp, tlp, ld>>

\* Sender::send on the unbounded channel: queued while the receiver lives,
\* Err (the value comes back) once it is dropped; it never waits
send(chan, rx, msg) ==
    IF rx THEN [chan |-> Append(chan, msg), ret |-> "Ok"]
    ELSE [chan |-> chan, ret |-> "Err"]

\* main.rs 53-54: `let _ = tx.send(result)`, then the closure ends and drops tx
worker_send ==
    /\ cli.worker = "computed"
    /\ LET r == send(cli.chan, cli.rx, cli.result[1])
       IN  cli' = [cli EXCEPT !.worker = "done", !.chan = r.chan,
                              !.sent = Some(r.ret), !.tx = FALSE]
    /\ UNCHANGED <<variant, walkerVars, gridVars, adjVars, lp, tlp, ld>>

\* the timeout of recv_timeout runs out while the main thread waits
cli_timeout_elapses ==
    /\ cli.pc = "recv" /\ ~cli.elapsed
    /\ cli' = [cli EXCEPT !.elapsed = TRUE]
    /\ UNCHANGED <<variant, walkerVars, gridVars, adjVars, lp, tlp, ld>>

\* mutant of recv_timeout: the deadline is looked at before the queue
recv_timeout_deadline_first(chan, tx, elapsed) ==
    IF elapsed THEN "Timeout"
    ELSE IF chan # <<>> THEN "Ok"
    ELSE IF ~tx THEN "Disconnected"
    ELSE "wait"

\* Receiver::recv_timeout: a queued message first, then a dropped sender, then
\* the deadline; otherwise the thread keeps waiting
recv_timeout(chan, tx, elapsed) ==
    IF chan # <<>> THEN "Ok"
    ELSE IF ~tx THEN "Disconnected"
    ELSE IF elapsed THEN "Timeout"
    ELSE "wait"

\* main.rs 57-61
cli_recv_ok ==
    /\ cli.pc = "recv" /\ recv_timeout(cli.chan, cli.tx, cli.elapsed) = "Ok"
    /\ LET path_ == Head(cli.chan)
       IN  cli' = [cli EXCEPT !.pc = "reported", !.seen = cli.chan,
                              !.chan = Tail(cli.chan),
                              !.stdout = <<[line |-> "Path", path |-> path_],
                                           [line |-> "Score",
                                            score |-> result_score(path_.path).value]>>]
    /\ UNCHANGED <<variant, walkerVars, gridVars, adjVars, lp, tlp, ld>>

\* main.rs 62-64
cli_recv_timeout ==
    /\ cli.pc = "recv" /\ recv_timeout(cli.chan, cli.tx, cli.elapsed) = "Timeout"
    /\ cli' = [cli EXCEPT !.pc = "reported", !.seen = cli.chan,
                          !.stdout = <<[line |-> "Timed out"]>>]
    /\ UNCHANGED <<variant, walkerVars, gridVars, adjVars, lp, tlp, ld>>

\* main.rs 65-67
cli_recv_disconnected ==
    /\ cli.pc = "recv" /\ recv_timeout(cli.chan, cli.tx, cli.elapsed) = "Disconnected"
    /\ cli' = [cli EXCEPT !.pc = "reported", !.seen = cli.chan,
                          !.stdout = <<[line |-> "Thread disconnected"]>>]
    /\ UNCHANGED <<variant, walkerVars, gridVars, adjVars, lp, tlp, ld>>

\* main.rs 69: main's locals are dropped, rx among them
cli_drop_rx ==
    /\ cli.pc = "reported"
    /\ cli' = [cli EXCEPT !.pc = "returning", !.rx = FALSE]
    /\ UNCHANGED <<variant, walkerVars, gridVars, adjVars, lp, tlp, ld>>

\* main returns: the process exits and takes a worker that still runs with it
cli_exit ==
    /\ cli.pc = "returning"
    /\ cli' = [cli EXCEPT !.pc = "exited",
                          !.worker = IF @ \in {"running", "computed"} THEN "killed" ELSE @]
    /\ UNCHANGED <<variant, walkerVars, gridVars, adjVars, lp, tlp, ld>>

NextCli ==
    \/ cli_load \/ cli_spawn \/ worker_plan \/ worker_send \/ cli_timeout_elapses
    \/ cli_recv_ok \/ cli_recv_timeout \/ cli_recv_disconnected
    \/ cli_drop_rx \/ cli_exit

SpecCli == InitCli /\ [][NextCli]_vars

-----------------------------------------------------------------------------
(* Properties of the front end *)

\* the grid file is not square, or the start is no cell of the grid
InvalidInput ==
    \/ \E i \in 1..Len(cli.lens) : cli.lens[i] # Len(cli.lens)
    \/ <<unwrap_or(cli.args.x, 0), unwrap_or(cli.args.y, 0)>> \notin Cells(Len(cli.lens))

\* C16: on an invalid input (a start outside the grid, or a grid file whose
\* rows do not all have as many entries as there are rows) no planner is run
\* and nothing panics: the worker is never started on it.
C16_InvalidInputRejected ==
    InvalidInput => (cli.worker = "none" /\ cli.pc # "panicked" /\ cli.pc # "recv")

\* the lines of stdout that report an outcome
Outcomes ==
    {k \in 1..Len(cli.stdout) :
        cli.stdout[k].line \in {"Path", "Timed out", "Thread disconnected"}}

C18_State ==
    /\ Cardinality(Outcomes) =
          (IF cli.pc \in {"reported", "returning", "exited"} THEN 1 ELSE 0)
    /\ (cli.stdout # <<>> /\ cli.stdout[1].line = "Path") =>
          /\ cli.result # None
          /\ cli.stdout = <<[line |-> "Path", path |-> cli.result[1]],
                            [line |-> "Score",
                             score |-> ExactSum(cli.result[1].path,
                                                Len(cli.result[1].path))]>>
    /\ (cli.seen # <<>> /\ cli.pc \in {"reported", "returning", "exited"}) =>
          cli.stdout[1].line = "Path"
    /\ (cli.stdout # <<>> /\ cli.stdout[1].line = "Timed out") =>
          (cli.elapsed /\ cli.seen = <<>> /\ Len(cli.stdout) = 1)
    /\ cli.worker = "panicked" => cli.sent = None
    /\ cli.worker = "done" => cli.sent \in {Some("Ok"), Some("Err")}
    /\ cli.worker = "computed" => ENABLED worker_send
    /\ cli.worker = "killed" => cli.pc = "exited"

C18_Step ==
    cli_recv_timeout => (cli'.worker = cli.worker /\ cli'.result = cli.result
                            /\ cli'.chan = cli.chan)

\* C18: once the worker is spawned exactly one outcome is printed per run; a
\* result that is in the channel when recv_timeout returns is printed with its
\* score; "Timed out" is printed only when the timeout ran out with nothing
\* sent, it differs from the report of a dead worker, and the result is then
\* never printed; the worker's send never waits and never panics, whether the
\* receiver is still there or not; the timeout leaves the worker as it is (the
\* worker ends by itself or with the process).
C18_OneOutcome == []C18_State /\ [][C18_Step]_vars

\* timed out first, and the worker sent its result afterwards
C18_Witness ==
    /\ cli.stdout = <<[line |-> "Timed out"]>>
    /\ cli.worker = "done" /\ cli.seen = <<>>
    /\ cli.sent \in {Some("Ok"), Some("Err")}

-----------------------------------------------------------------------------
(* The greedy walker's queue (bfs.rs 47-76, pathfinding.rs 171-203) *)

\* the cells held by the queue
QueueNodes == {pq[i].node : i \in 1..Len(pq)}

\* the cell visited last
LastNode == path[Len(path)].node

\* at the head of the loop the queue is the start state alone, or exactly
\* the neighbours of the last visited cell with budget - steps remaining
C21_State ==
    pc = "loop" =>
        IF path = <<>>
        THEN /\ Len(pq) = 1
             /\ pq[1].node = input.start
             /\ pq[1].timesteps_remaining = input.max_timesteps
        ELSE /\ QueueNodes = Around(input.graph.size, LastNode)
             /\ Len(pq) = Cardinality(QueueNodes)
             /\ \A i \in 1..Len(pq) :
                    pq[i].timesteps_remaining = input.max_timesteps - Len(path)

\* a step visits a cell the queue held at that moment, and what it pushes
\* has one step less remaining than the state it popped
C21_Step ==
    path' # path =>
        /\ Len(path') = Len(path) + 1
        /\ SubSeq(path', 1, Len(path)) = path
        /\ \E i \in 1..Len(pq) :
              /\ pq[i].node = path'[Len(path')].node
              /\ pc' = "loop" =>
                    \A j \in 1..Len(pq') :
                        pq'[j].timesteps_remaining = pq[i].timesteps_remaining - 1

\* C21: the greedy walker is a one-step walk. Whenever a candidate is popped,
\* the queue holds only the neighbours of the last visited cell (the start
\* state alone before the first step), each once, all with remaining steps =
\* budget - steps taken; no candidate of an earlier step is left to be popped,
\* and the remaining-step count goes down by exactly 1 per step.
C21_OneStepWalk == []C21_State /\ [][C21_Step]_vars

\* three steps taken on a 3x3 grid, and a cell around the cell visited before
\* the last one that is not a candidate any more
C21_Witness ==
    /\ pc = "loop" /\ Len(path) >= 3 /\ Len(pq) >= 3
    /\ \E c \in Around(input.graph.size, path[Len(path) - 1].node) :
          c # LastNode /\ c \notin QueueNodes

-----------------------------------------------------------------------------
(* Determinism of the greedy walker (bfs.rs 11-29, 65-75) *)

\* the cells and rewards of a trajectory, without the step numbers the app
\* copy does not keep
Visits(p) == [k \in 1..Len(p) |-> [node |-> p[k].node, score |-> p[k].score]]

\* the trajectory the four arguments determine
Determined ==
    Visits(path_planning_bfs(input.graph, input.start, input.max_timesteps,
                             input.recovery_rate).path)

\* the cells step k chose from: those around the cell of step k - 1
Candidates(k) == Around(input.graph.size, path[k - 1].node)

\* the reward of cell c when step k chooses
RewardAt(k, c) == NodesBefore(k)[c[1] + 1][c[2] + 1]

\* the candidates of step k that share the reward of the cell it chose
Tied(k) ==
    {c \in Candidates(k) : c # path[k].node /\ RewardAt(k, c) = path[k].score}

-----------------------------------------------------------------------------
(* The reachable-subgraph traversal of the edge-flow planner (lp.rs 62-99) *)

\* how many times edge x was pushed on the work stack
Pushes(x) == Cardinality({k \in 1..Len(lp.pushed) : lp.pushed[k] = x})

\* the edges Node::start gives: the first content of the stack
InitialEdges == Range(get_edges_out(lp.self, lp.start))

\* no edge is pushed more than twice, and only an initial edge twice
C23_PushedTwice ==
    lp.pc \notin {"idle", "call"} =>
        \A x \in Range(lp.pushed) :
            Pushes(x) <= (IF x \in InitialEdges THEN 2 ELSE 1)

\* the directed edges of a grid of size n
AllEdges(n) == {e \in Cells(n) \X Cells(n) : Adjacent(e[1], e[2])}

\* what is left to do: the edges on the stack, and two for every edge not
\* seen yet (its push and its pop)
Measure(l) ==
    Len(l.stack) + 2 * Cardinality(AllEdges(l.self.size) \ l.seen_edges)

\* every pass of the loop brings the measure down
C23_Step ==
    (lp.pc = "traverse" /\ lp'.pc = "traverse" /\ lp' # lp) =>
        /\ lp'.seen_edges \subseteq AllEdges(lp.self.size)
        /\ Measure(lp') < Measure(lp)

\* C23: the traversal terminates for every grid size and start cell. Every
\* edge is pushed on the work stack at most twice (once as an initial edge,
\* once when it is first seen), and every pass of the loop lowers a measure
\* that cannot go below zero, so after finitely many passes the stack is
\* empty.
C23_TraversalTerminates == []C23_PushedTwice /\ [][C23_Step]_vars

\* the traversal is over on a grid with edges, and an initial edge was indeed
\* pushed twice
C23_Witness ==
    /\ lp.pc = "traverse" /\ lp.stack = <<>>
    /\ \E x \in InitialEdges : Pushes(x) = 2
    /\ \E x \in lp.edges : Pushes(x) = 1

\* the traversal is over: the loop has been left, or is about to be
TraversalOver == lp.pc \notin {"idle", "call"} /\ lp.stack = <<>>

\* the cells that are an end of a collected edge
Endpoints == {e[1] : e \in lp.edges} \cup {e[2] : e \in lp.edges}

\* the edge set holds legal moves only, and all of them when the grid has any
C24_Edges == TraversalOver => lp.edges = AllEdges(lp.self.size)

\* the touched cells hold the start and both ends of every collected edge
C24_Nodes == TraversalOver => ({lp.start} \cup Endpoints) \subseteq lp.nodes

\* C24: when the traversal ends, the edge set holds only legal moves (ordered
\* pairs of distinct 8-adjacent cells of the grid), and every legal move that
\* can be reached from the start (on a grid of size >= 2 every directed edge
\* of the grid); the touched-cell set holds the start cell and every cell that
\* is an end of a collected edge, so each of them gets its constraint.
C24_TraversalResult == C24_Edges /\ C24_Nodes
====
